---- MODULE Spec2Model ----
(***************************************************************************)
(* Model of examples/image_search/example.ipynb: a notebook that creates   *)
(* the table image_search_test, encodes a list of images with CLIP, stores *)
(* one row per image, and ranks the rows by cosine distance to the         *)
(* embedding of a text query.                                              *)
(*                                                                         *)
(* The notebook's cells are run one at a time (a cell runs to completion   *)
(* or stops at the first exception) and may be re-run in any order.  The   *)
(* database outlives the kernel, so the table may hold anything before the *)
(* schema cell has run.                                                    *)
(*                                                                         *)
(* Abstractions: an embedding is a 2-component integer vector of integral  *)
(* length instead of 512 floats; a distance is a fixed-point number in     *)
(* millionths (Unit = 1.0); the pretrained model is a fixed table; the     *)
(* engine's ORDER BY ... LIMIT is exact (its vector index is not           *)
(* modelled).  The image list, the query text and the LIMIT argument are   *)
(* the notebook's inputs: a behaviour keeps the ones it starts with.  The  *)
(* notebook itself is written with the text "dog" and LIMIT 5.             *)
(***************************************************************************)
EXTENDS Integers, Sequences, FiniteSets

\* ------------------------------------------------------------------ bounds

\* Longest image list the dataset cell may load.
MaxImages == 2

\* Largest primary key the table hands out (caps the number of ingestions).
MaxId == 3

\* Largest LIMIT argument tried besides the notebook's own.
MaxK == 1

\* The LIMIT the notebook's query cell is written with.
NotebookLimit == 5

\* round(x, 3) keeps thousandths.
Milli == 1000

\* Fixed-point one: distances are kept in millionths.
Unit == Milli * Milli

\* ------------------------------------------------------------ the encoder

Corrupt == "corrupt"

Images == {"dog", "cat", Corrupt}

NotText == "not_text"

Texts == {"dog", "night", NotText}

\* CLIPModel.get_image_features on one preprocessed image.
get_image_features(img) ==
    CASE img = "dog" -> <<3, 4>>
      [] img = "cat" -> <<5, 12>>

\* CLIPModel.get_text_features on one tokenised text.
get_text_features(text) ==
    CASE text = "dog"   -> <<3, 4>>
      [] text = "night" -> <<-4, -3>>

\* The processor rejects the whole batch when one image cannot be read.
ImagesEncodable(images) == \A i \in 1..Len(images) : images[i] # Corrupt

\* The embeddings in the reverse of the images' order.
EncodeReversed(images) ==
    [i \in 1..Len(images) |-> get_image_features(images[Len(images) + 1 - i])]

encode_images_to_embeddings(images) ==
    [i \in 1..Len(images) |-> get_image_features(images[i])]

TextEncodable(text) == text # NotText

encode_text_to_embedding(text) == get_text_features(text)

\* ------------------------------------------------------- cosine distance

Dot(a, b) == a[1] * b[1] + a[2] * b[2]

Abs(x) == IF x < 0 THEN -x ELSE x

\* The length of a vector (integral for every vector of the model).
Norm(a) == CHOOSE r \in 0..(Abs(a[1]) + Abs(a[2])) : r * r = Dot(a, a)

\* The distance without the division by the two lengths.
UnnormalisedDistance(a, b) == Unit - Dot(a, b) * Unit

\* 1 - cos(a, b), in millionths, truncated as a finite-precision float is.
cosine_distance(a, b) == Unit - (Dot(a, b) * Unit) \div (Norm(a) * Norm(b))

\* Python's round(x, 3) of x given in millionths: thousandths, half to even.
round3(x) ==
    LET q == x \div Milli
        r == x % Milli
    IN  IF r * 2 > Milli \/ (r * 2 = Milli /\ q % 2 = 1) THEN q + 1 ELSE q

\* ---------------------------------------------------------------- storage

\* The table image_search_test: whether it exists, its committed rows in
\* primary-key order, and its AUTO_INCREMENT counter.
NoTable == [exists |-> FALSE, rows |-> <<>>, autoInc |-> 1]

EmptyTable == [exists |-> TRUE, rows |-> <<>>, autoInc |-> 1]

\* What an earlier run of some program may have left in the database.
LeftOver ==
    [exists |-> TRUE,
     rows |-> <<[id |-> 1, image_id |-> 7, embedding |-> <<6, 8>>]>>,
     autoInc |-> 2]

\* A drop_all that drops nothing.
DropNothing(t) == t

\* Base.metadata.drop_all(engine): DROP TABLE when the table exists.
drop_all(t) == NoTable

\* Base.metadata.create_all(engine): CREATE TABLE unless the table exists.
create_all(t) == IF t.exists THEN t ELSE EmptyTable

\* The loop with positions counted from 1.
BuildObjectsFromOne(embs) ==
    [i \in 1..Len(embs) |-> [image_id |-> i, embedding |-> embs[i]]]

\* The loop of the ingestion cell: one ImageSearchTest per embedding, with
\* image_id the 0-based position enumerate() gives it.
BuildObjects(embs) ==
    [i \in 1..Len(embs) |-> [image_id |-> i - 1, embedding |-> embs[i]]]

\* The INSERTs of a flush: the first n objects become rows of the open
\* transaction, with consecutive primary keys from the table's counter.
InsertRows(t, objs, n) ==
    [i \in 1..n |->
        [id |-> t.autoInc + i - 1,
         image_id |-> objs[i].image_id,
         embedding |-> objs[i].embedding]]

\* The counter is advanced by an INSERT whether or not it is committed.
Allocate(t, n) == [t EXCEPT !.autoInc = @ + n]

\* A COMMIT that leaves only the transaction's rows in the table.
CommitReplacing(t, tx) == [t EXCEPT !.rows = tx]

\* A session whose statements are committed one by one: closing it keeps the
\* rows inserted so far.
RollbackKeeping(t, tx) == [t EXCEPT !.rows = @ \o tx]

\* COMMIT publishes the rows of the transaction, all at once.
Commit(t, tx) == [t EXCEPT !.rows = @ \o tx]

\* Leaving "with Session()" without a commit closes the session, which rolls
\* the open transaction back: none of its rows is kept.
Rollback(t, tx) == t

\* ------------------------------------------------------------ the query

\* The distance label of each row, in table order.
Distances(rows, q) ==
    [i \in 1..Len(rows) |-> cosine_distance(rows[i].embedding, q)]

MinOf(d, S) == CHOOSE i \in S : \A j \in S : d[i] <= d[j]

\* ORDER BY distance ASC has no second key: rows at the same distance come in
\* whatever order the engine produces, which may differ from run to run.
RECURSIVE Orderings(_, _)
Orderings(d, S) ==
    IF S = {} THEN {<<>>}
    ELSE LET m == d[MinOf(d, S)]
         IN  UNION {{<<i>> \o rest : rest \in Orderings(d, S \ {i})} :
                    i \in {j \in S : d[j] = m}}

order_by_asc(rows, q) ==
    LET d == Distances(rows, q)
    IN  {[j \in 1..Len(o) |-> <<rows[o[j]], d[o[j]]>>] :
            o \in Orderings(d, 1..Len(rows))}

\* A SELECT without its LIMIT.
NoLimit(seq, k) == seq

\* LIMIT k, k >= 0.
limit_(seq, k) == SubSeq(seq, 1, IF k < Len(seq) THEN k ELSE Len(seq))

\* The SELECT of the query cell for a LIMIT k >= 0: every answer the engine
\* may give.
Select(rows, q, k) == {limit_(r, k) : r \in order_by_asc(rows, q)}

\* Python's list indexing: images[i] is defined for -len <= i < len, counting
\* from the end when i is negative, and raises IndexError otherwise.
Indexable(images, i) == -Len(images) <= i /\ i < Len(images)

PyIndex(images, i) == images[IF i < 0 THEN Len(images) + i + 1 ELSE i + 1]

\* How many results the loop after the SELECT handles before it stops: all of
\* them, or those before the first whose image_id is out of range.
Collected(images, res) ==
    IF \A j \in 1..Len(res) : Indexable(images, res[j][1].image_id)
    THEN Len(res)
    ELSE (CHOOSE j \in 1..Len(res) :
            /\ ~Indexable(images, res[j][1].image_id)
            /\ \A i \in 1..(j - 1) : Indexable(images, res[i][1].image_id)) - 1

SimilarImages(images, res, n) ==
    [j \in 1..n |-> PyIndex(images, res[j][1].image_id)]

Similarities(res, n) == [j \in 1..n |-> round3(Unit - res[j][2])]

\* ------------------------------------------------------------------ state

None == "None"

VARIABLES
    imagenet_images,       \* the images loaded from the dataset
    query_text,            \* the text the query cell is written with
    limit,                 \* the LIMIT the query cell is written with
    table,                 \* image_search_test as the database holds it
    defined,               \* the kernel has Session and ImageSearchTest
    pc,                    \* where the running cell is; "idle" between cells
    err,                   \* the exception the last cell ended with, or None
    images_embedding,      \* kernel variables of the ingestion cell
    objects,
    pending,               \* objects added to the open session, not flushed
    txn,                   \* rows inserted by the open transaction
    query_text_embedding,  \* kernel variables of the query cell
    results,
    similar_images,
    similarities,
    legacy,                \* history: the table holds rows no ingestion made
    fresh                  \* history: results is the answer of a SELECT on
                           \*   the table as it is now

vars ==
    <<imagenet_images, query_text, limit, table, defined, pc, err,
      images_embedding, objects, pending, txn, query_text_embedding, results,
      similar_images, similarities, legacy, fresh>>

inputVars == <<imagenet_images, query_text, limit>>

ingestVars == <<images_embedding, objects>>

queryVars ==
    <<query_text_embedding, results, similar_images, similarities>>

RECURSIVE SeqsUpTo(_, _)
SeqsUpTo(S, n) ==
    IF n = 0 THEN {<<>>}
    ELSE LET shorter == SeqsUpTo(S, n - 1)
         IN  shorter \cup
             {Append(s, x) : s \in {t \in shorter : Len(t) = n - 1}, x \in S}

\* Two lists of five images: item 3 is the only dog, or one of two.
FiveItems ==
    {<<"cat", "cat", "cat", "dog", "cat">>,
     <<"dog", "cat", "cat", "dog", "cat">>}

Datasets == (SeqsUpTo(Images, MaxImages) \ {<<>>}) \cup FiveItems

LimitArgs == ((-1)..MaxK) \cup {NotebookLimit}

Init ==
    /\ imagenet_images \in Datasets
    /\ query_text \in Texts
    /\ limit \in LimitArgs
    /\ table \in {NoTable, EmptyTable, LeftOver}
    /\ legacy = (table.rows # <<>>)
    /\ defined = FALSE
    /\ pc = "idle"
    /\ err = None
    /\ images_embedding = <<>>
    /\ objects = <<>>
    /\ pending = <<>>
    /\ txn = <<>>
    /\ query_text_embedding = <<>>
    /\ results = <<>>
    /\ similar_images = <<>>
    /\ similarities = <<>>
    /\ fresh = FALSE

\* ------------------------------------------------------- the schema cell

\* engine, Session, Base and the class ImageSearchTest are defined; nothing
\* is sent to the database yet.
SchemaDefine ==
    /\ pc = "idle"
    /\ defined' = TRUE
    /\ pc' = "drop_all"
    /\ UNCHANGED <<inputVars, table, err, ingestVars, pending, txn, queryVars,
                   legacy, fresh>>

SchemaDropAll ==
    /\ pc = "drop_all"
    /\ table' = drop_all(table)
    /\ legacy' = FALSE
    /\ fresh' = FALSE
    /\ pc' = "create_all"
    /\ UNCHANGED <<inputVars, defined, err, ingestVars, pending, txn,
                   queryVars>>

SchemaCreateAll ==
    /\ pc = "create_all"
    /\ table' = create_all(table)
    /\ fresh' = FALSE
    /\ err' = None
    /\ pc' = "idle"
    /\ UNCHANGED <<inputVars, defined, ingestVars, pending, txn, queryVars,
                   legacy>>

\* The connection is lost: the statement raises and the cell stops.
SchemaFail ==
    /\ pc \in {"drop_all", "create_all"}
    /\ err' = "StorageError"
    /\ pc' = "idle"
    /\ UNCHANGED <<inputVars, table, defined, ingestVars, pending, txn,
                   queryVars, legacy, fresh>>

\* ---------------------------------------------------- the ingestion cell

\* The table's counter is capped so that the model is finite; a new table
\* takes one batch of any length.
RoomFor(n) == table.autoInc = 1 \/ table.autoInc + n - 1 <= MaxId

\* The encoder raises on the first line of the cell: nothing else has run.
IngestEncodeFail ==
    /\ pc = "idle"
    /\ defined
    /\ ~ImagesEncodable(imagenet_images)
    /\ err' = "EncodingError"
    /\ UNCHANGED <<inputVars, table, defined, pc, ingestVars, pending, txn,
                   queryVars, legacy, fresh>>

\* The images are encoded, one object is built per embedding, and the
\* objects are added to a new session.
IngestAddAll ==
    /\ pc = "idle"
    /\ defined
    /\ RoomFor(Len(imagenet_images))
    /\ ImagesEncodable(imagenet_images)
    /\ images_embedding' = encode_images_to_embeddings(imagenet_images)
    /\ objects' = BuildObjects(images_embedding')
    /\ pending' = objects'
    /\ pc' = "flush"
    /\ UNCHANGED <<inputVars, table, defined, err, txn, queryVars, legacy,
                   fresh>>

\* session.commit(), first half: the pending objects are INSERTed in a
\* transaction.
IngestFlush ==
    /\ pc = "flush"
    /\ table.exists
    /\ txn' = InsertRows(table, pending, Len(pending))
    /\ table' = Allocate(table, Len(pending))
    /\ pending' = <<>>
    /\ pc' = "commit"
    /\ UNCHANGED <<inputVars, defined, err, ingestVars, queryVars, legacy,
                   fresh>>

\* An INSERT raises (no such table, or the connection is lost after n rows
\* were inserted); the exception leaves the with block, which closes the
\* session.
IngestFlushFail ==
    /\ pc = "flush"
    /\ \E n \in 0..(Len(pending) - 1) :
          /\ n > 0 => table.exists
          /\ table' = Rollback(Allocate(table, n), InsertRows(table, pending, n))
    /\ txn' = <<>>
    /\ pending' = <<>>
    /\ err' = "StorageError"
    /\ pc' = "idle"
    /\ UNCHANGED <<inputVars, defined, ingestVars, queryVars, legacy, fresh>>

\* session.commit(), second half: COMMIT.
IngestCommit ==
    /\ pc = "commit"
    /\ table' = Commit(table, txn)
    /\ txn' = <<>>
    /\ fresh' = FALSE
    /\ err' = None
    /\ pc' = "idle"
    /\ UNCHANGED <<inputVars, defined, ingestVars, pending, queryVars, legacy>>

\* COMMIT raises; the with block closes the session.
IngestCommitFail ==
    /\ pc = "commit"
    /\ table' = Rollback(table, txn)
    /\ txn' = <<>>
    /\ err' = "StorageError"
    /\ pc' = "idle"
    /\ UNCHANGED <<inputVars, defined, ingestVars, pending, queryVars, legacy,
                   fresh>>

\* -------------------------------------------------------- the query cell

\* The encoder raises on the second line of the cell.
QueryEncodeFail ==
    /\ pc = "idle"
    /\ defined
    /\ ~TextEncodable(query_text)
    /\ err' = "EncodingError"
    /\ UNCHANGED <<inputVars, table, defined, pc, ingestVars, pending, txn,
                   queryVars, legacy, fresh>>

\* The SELECT raises: no such table, a negative LIMIT (a syntax error to the
\* engine), or the connection is lost.  results is not assigned.
QuerySelectFail ==
    /\ pc = "idle"
    /\ defined
    /\ TextEncodable(query_text)
    /\ query_text_embedding' = encode_text_to_embedding(query_text)
    /\ err' = "StorageError"
    /\ UNCHANGED <<inputVars, table, defined, pc, ingestVars, pending, txn,
                   results, similar_images, similarities, legacy, fresh>>

\* The text is encoded, the SELECT ... ORDER BY distance LIMIT limit answers
\* (LIMIT 0 is a valid statement with an empty answer), and the loop builds
\* the two output lists; it stops with IndexError at a result whose image_id
\* is past the end of imagenet_images.
QueryAnswer ==
    /\ pc = "idle"
    /\ defined
    /\ TextEncodable(query_text)
    /\ table.exists
    /\ limit >= 0
    /\ query_text_embedding' = encode_text_to_embedding(query_text)
    /\ results' \in Select(table.rows, query_text_embedding', limit)
    /\ LET n == Collected(imagenet_images, results')
       IN  /\ similar_images' = SimilarImages(imagenet_images, results', n)
           /\ similarities' = Similarities(results', n)
           /\ err' = IF n = Len(results') THEN None ELSE "IndexError"
    /\ fresh' = TRUE
    /\ UNCHANGED <<inputVars, defined, pc, ingestVars, pending, txn, legacy>>

\* A query cell that empties the table it has read.
QueryDeleting == QueryAnswer /\ table' = [table EXCEPT !.rows = <<>>]

\* The query cell issues a SELECT and nothing else.
Query == QueryAnswer /\ table' = table

Next ==
    \/ SchemaDefine
    \/ SchemaDropAll
    \/ SchemaCreateAll
    \/ SchemaFail
    \/ IngestEncodeFail
    \/ IngestAddAll
    \/ IngestFlush
    \/ IngestFlushFail
    \/ IngestCommit
    \/ IngestCommitFail
    \/ QueryEncodeFail
    \/ QuerySelectFail
    \/ Query

Spec == Init /\ [][Next]_vars

\* ------------------------------------------------------------ properties

N == Len(imagenet_images)

Rows == table.rows

IngestStep ==
    \/ IngestEncodeFail
    \/ IngestAddAll
    \/ IngestFlush
    \/ IngestFlushFail
    \/ IngestCommit
    \/ IngestCommitFail

IngestFailure == IngestEncodeFail \/ IngestFlushFail \/ IngestCommitFail

QueryStep == QueryEncodeFail \/ QuerySelectFail \/ Query

IsPrefix(s, t) == Len(s) <= Len(t) /\ \A i \in 1..Len(s) : t[i] = s[i]

Min(a, b) == IF a < b THEN a ELSE b

\* C1: a batch is stored atomically.  Every step of the ingestion cell either
\* leaves the committed rows as they are or adds all N rows of the batch at
\* once, and the latter only as the successful COMMIT; a step in which the
\* encoder, an INSERT or the COMMIT raises leaves the committed rows as they
\* are.
C1_AtomicBatch ==
    [][IngestStep =>
          /\ \/ table'.rows = Rows
             \/ /\ IngestCommit
                /\ IsPrefix(Rows, table'.rows)
                /\ Len(table'.rows) = Len(Rows) + N
          /\ IngestFailure => table'.rows = Rows]_vars

\* A batch of two failed after its first INSERT: one primary key is used up
\* and no row of the batch is in the table.
C1_Witness ==
    /\ pc = "idle"
    /\ err = "StorageError"
    /\ N = 2
    /\ table.exists
    /\ table.autoInc = Len(Rows) + 2
    /\ \A i \in 1..Len(Rows) : Rows[i].id = 1 /\ Rows[i].image_id = 7

C3_InvalidK == limit <= 0 => ~fresh

C5_Idempotent == [][(Query /\ fresh /\ ~legacy) => results' = results]_vars

\* C6: no step of the query cell, whether it answers or raises, changes the
\* table.
C6_QueryReadOnly == [][QueryStep => table' = table]_vars

\* A query has answered from a table that holds rows.
C6_Witness == fresh /\ Len(results) > 0 /\ Len(Rows) > 0

\* C7: the rows a successful ingestion adds are one per image, in order, the
\* i-th with image_id i (from 0) and the embedding the encoder gives image i;
\* so on an empty table the result is exactly N rows with image_ids 0..N-1.
C7_OneRowPerItem ==
    [][IngestCommit =>
          /\ IsPrefix(Rows, table'.rows)
          /\ Len(table'.rows) = Len(Rows) + N
          /\ \A i \in 1..N :
                /\ table'.rows[Len(Rows) + i].image_id = i - 1
                /\ table'.rows[Len(Rows) + i].embedding =
                      get_image_features(imagenet_images[i])
          /\ Rows = <<>> =>
                \A m \in 0..(N - 1) :
                    Cardinality({i \in 1..Len(table'.rows) :
                                    table'.rows[i].image_id = m}) = 1]_vars

\* A reset table after one ingestion of two different images.
C7_Witness ==
    /\ pc = "idle"
    /\ ~legacy
    /\ N = 2
    /\ Len(Rows) = 2
    /\ Rows[1].id = 1
    /\ Rows[2].image_id = 1
    /\ Rows[1].embedding # Rows[2].embedding

\* C8: the step that completes the schema cell leaves an existing table
\* without rows, whatever the table was when the cell started.
C8_Reset ==
    [][SchemaCreateAll => (table'.exists /\ table'.rows = <<>>)]_vars

\* The schema cell has completed on a table that held rows: an earlier query
\* returned some, and the table is now empty with its counter at 1.
C8_Witness ==
    /\ pc = "idle"
    /\ err = None
    /\ table = EmptyTable
    /\ ~fresh
    /\ Len(results) > 0
    /\ Len(objects) > 0

\* C9: in every step other than the schema cell's drop, each stored row stays
\* in the table as it is: rows are only added.
C9_RowsOnlyAdded == [][SchemaDropAll \/ IsPrefix(Rows, table'.rows)]_vars

\* A left-over row still in place after an ingestion added two rows.
C9_Witness ==
    /\ legacy
    /\ Len(Rows) = 3
    /\ Rows[1].image_id = 7
    /\ Rows[3].image_id = 1

\* C10: when every row of the table comes from an ingestion of
\* imagenet_images, the answer of a query holds only image_ids in 0..N-1, the
\* two output lists are as long as the answer, which is no longer than the
\* LIMIT, entry j of similar_images is the image of result j and entry j of
\* similarities is within half a thousandth of 1 - distance of result j, and
\* the similarities do not increase.
C10_OutputLists ==
    (fresh /\ ~legacy) =>
        /\ Len(results) <= limit
        /\ Len(similar_images) = Len(results)
        /\ Len(similarities) = Len(results)
        /\ \A j \in 1..Len(results) :
              /\ 0 <= results[j][1].image_id
              /\ results[j][1].image_id < N
              /\ similar_images[j] = imagenet_images[results[j][1].image_id + 1]
              /\ 2 * Abs(similarities[j] * Milli - (Unit - results[j][2])) <= Milli
        /\ \A j, k \in 1..Len(similarities) :
              j < k => similarities[j] >= similarities[k]

\* Two results whose similarities differ, the second one rounded.
C10_Witness ==
    /\ fresh
    /\ ~legacy
    /\ Len(results) = 2
    /\ similarities[1] > similarities[2]
    /\ similarities[2] * Milli # Unit - results[2][2]

====
